---------------------------- MODULE Spec2Model ----------------------------
(***************************************************************************)
(* A model of rustotpony: the registry of TOTP applications (src/lib.rs),  *)
(* the generator record (src/generators.rs) and the encrypted JSON         *)
(* database (src/databases/json.rs).                                       *)
(*                                                                         *)
(* Text is a sequence of bytes (ASCII codes).  A Rust String / &str is     *)
(* such a sequence; a Vec<u8> is a sequence of numbers 0..255.             *)
(***************************************************************************)
EXTENDS Integers, Sequences, FiniteSets, TLC

(***************************************************************************)
(* Bounds of the model.                                                    *)
(***************************************************************************)
\* IVs the random generator may return are IvOf(0) .. IvOf(MaxIvSeed).
MaxIvSeed == 1
\* The versions of the documents a file may hold are 0 .. MaxVersion.
MaxVersion == 2

(***************************************************************************)
(* Program constants.                                                      *)
(***************************************************************************)
DATABASE_VERSION == 1
IV_SIZE == 16
\* Block size of AES, the cipher aes::cbc_encryptor / cbc_decryptor build.
BLOCK_SIZE == 16

(***************************************************************************)
(* Option<T> and Result<T, E>.                                             *)
(***************************************************************************)
None == [some |-> FALSE]
Some(v) == [some |-> TRUE, v |-> v]
Ok(v) == [ok |-> TRUE, v |-> v]
Err(e) == [ok |-> FALSE, e |-> e]

(***************************************************************************)
(* generators.rs                                                           *)
(***************************************************************************)
\* The value of a character in the RFC 4648 base32 alphabet (A-Z, 2-7),
\* -1 for a character outside it.
Base32Value(c) ==
    IF c >= 65 /\ c <= 90 THEN c - 65
    ELSE IF c >= 50 /\ c <= 55 THEN c - 50 + 26
    ELSE -1

\* 2^n
RECURSIVE Pow2(_)
Pow2(n) == IF n = 0 THEN 1 ELSE 2 * Pow2(n - 1)

\* Bit i (1 = most significant) of the 5-bit group of character k of s.
Base32Bit(s, k, i) == (Base32Value(s[k]) \div Pow2(5 - i)) % 2

\* Bit n (1-based) of the bit stream the characters of s spell.
Base32StreamBit(s, n) == Base32Bit(s, ((n - 1) \div 5) + 1, ((n - 1) % 5) + 1)

RECURSIVE Base32Byte(_, _, _)
\* Byte j (1-based) of the stream: bits 8(j-1)+1 .. 8j, most significant first.
Base32Byte(s, j, i) ==
    IF i > 8 THEN 0
    ELSE Base32StreamBit(s, 8 * (j - 1) + i) * Pow2(8 - i) + Base32Byte(s, j, i + 1)

\* base32::decode(Alphabet::RFC4648 { padding: false }, secret): None on a
\* character outside the alphabet, else the first Len(secret)*5/8 whole bytes.
base32_to_bytes(secret) ==
    IF \E k \in 1..Len(secret) : Base32Value(secret[k]) < 0
    THEN None
    ELSE Some([j \in 1..((Len(secret) * 5) \div 8) |-> Base32Byte(secret, j, 1)])

\* TOTP::new
TOTP_new(name, username, secret, secret_bytes) ==
    [name |-> name, secret |-> secret, username |-> username,
     secret_bytes |-> secret_bytes]

\* TOTP::new_base32
new_base32(name, username, base32_secret) ==
    LET decoded == base32_to_bytes(base32_secret) IN
    IF decoded.some
    THEN Ok(TOTP_new(name, username, base32_secret, decoded.v))
    ELSE Err("Couldn't decode secret key")

\* TOTP::set_name
set_name(app, name) == [app EXCEPT !.name = name]

(***************************************************************************)
(* serde_json, as derived for JsonDatabaseSchema, DatabaseContentSchema    *)
(* and TOTP: the compact text serde_json::to_string writes, fields in      *)
(* declaration order.                                                      *)
(***************************************************************************)
\* {"version":
LitVersion == <<123, 34, 118, 101, 114, 115, 105, 111, 110, 34, 58>>
\* ,"content":{"applications":
LitContent == <<44, 34, 99, 111, 110, 116, 101, 110, 116, 34, 58, 123, 34, 97,
                112, 112, 108, 105, 99, 97, 116, 105, 111, 110, 115, 34, 58>>
\* }}
LitEnd == <<125, 125>>
\* {"name":
LitName == <<123, 34, 110, 97, 109, 101, 34, 58>>
\* ,"secret":
LitSecret == <<44, 34, 115, 101, 99, 114, 101, 116, 34, 58>>
\* ,"username":
LitUsername == <<44, 34, 117, 115, 101, 114, 110, 97, 109, 101, 34, 58>>
\* ,"secret_bytes":
LitSecretBytes == <<44, 34, 115, 101, 99, 114, 101, 116, 95, 98, 121, 116, 101,
                    115, 34, 58>>

RECURSIVE EscapeFrom(_, _)
\* The characters of s from position i on, '"' and '\' preceded by '\'.
EscapeFrom(s, i) ==
    IF i > Len(s) THEN <<>>
    ELSE (IF s[i] = 34 \/ s[i] = 92 THEN <<92, s[i]>> ELSE <<s[i]>>)
         \o EscapeFrom(s, i + 1)

\* A string: "..." with its characters escaped.
SerStr(s) == <<34>> \o EscapeFrom(s, 1) \o <<34>>

\* A u8 in decimal.
SerU8(n) ==
    IF n < 10 THEN <<48 + n>>
    ELSE IF n < 100 THEN <<48 + (n \div 10), 48 + (n % 10)>>
    ELSE <<48 + (n \div 100), 48 + ((n \div 10) % 10), 48 + (n % 10)>>

RECURSIVE SerU8sFrom(_, _)
SerU8sFrom(v, i) ==
    IF i > Len(v) THEN <<>>
    ELSE (IF i > 1 THEN <<44>> ELSE <<>>) \o SerU8(v[i]) \o SerU8sFrom(v, i + 1)

\* A Vec<u8>: [n,n,...]
SerBytes(v) == <<91>> \o SerU8sFrom(v, 1) \o <<93>>

\* A TOTP: name, secret, username, secret_bytes.
SerTOTP(app) ==
    LitName \o SerStr(app.name) \o LitSecret \o SerStr(app.secret)
    \o LitUsername \o SerStr(app.username)
    \o LitSecretBytes \o SerBytes(app.secret_bytes) \o <<125>>

RECURSIVE SerEntriesFrom(_, _, _)
SerEntriesFrom(apps, order, i) ==
    IF i > Len(order) THEN <<>>
    ELSE (IF i > 1 THEN <<44>> ELSE <<>>)
         \o SerStr(order[i]) \o <<58>> \o SerTOTP(apps[order[i]])
         \o SerEntriesFrom(apps, order, i + 1)

\* A HashMap<String, TOTP>, its entries in the map's iteration order.
SerMap(apps, order) == <<123>> \o SerEntriesFrom(apps, order, 1) \o <<125>>

\* serde_json::to_string(&content); order is the iteration order of the
\* applications HashMap, which the map's hasher decides.
to_string(content, order) ==
    LitVersion \o SerU8(content.version) \o LitContent
    \o SerMap(content.content.applications, order) \o LitEnd

(***************************************************************************)
(* serde_json::from_str::<JsonDatabaseSchema>.  The parser reads the       *)
(* compact text to_string writes (no white space, fields in declaration    *)
(* order); any other text is a parse error.  A parse state is              *)
(* [ok, pos, vals]: whether the text parsed so far, the position reached   *)
(* and the values read, the latest last.  Every step passes a failed       *)
(* state on.                                                               *)
(***************************************************************************)
ParseFail == [ok |-> FALSE, pos |-> 0, vals |-> <<>>]
ParseStart == [ok |-> TRUE, pos |-> 1, vals |-> <<>>]

\* The state st with value v read and position pos reached.
Parsed(st, v, pos) == [ok |-> TRUE, pos |-> pos, vals |-> Append(st.vals, v)]

\* The literal lit.
ParseLit(text, st, lit) ==
    IF st.ok /\ st.pos + Len(lit) - 1 <= Len(text)
       /\ SubSeq(text, st.pos, st.pos + Len(lit) - 1) = lit
    THEN [st EXCEPT !.pos = @ + Len(lit)]
    ELSE ParseFail

RECURSIVE ScanStr(_, _, _, _)
\* The characters of a string up to its closing '"'; '\"' and '\\' are the
\* escapes of the characters the model's strings are made of.
ScanStr(text, st, pos, acc) ==
    IF pos > Len(text) THEN ParseFail
    ELSE IF text[pos] = 34 THEN Parsed(st, acc, pos + 1)
    ELSE IF text[pos] = 92
         THEN IF pos + 1 <= Len(text) /\ (text[pos + 1] = 34 \/ text[pos + 1] = 92)
              THEN ScanStr(text, st, pos + 2, Append(acc, text[pos + 1]))
              ELSE ParseFail
    ELSE ScanStr(text, st, pos + 1, Append(acc, text[pos]))

\* A string.
ParseStr(text, st) ==
    IF st.ok /\ st.pos <= Len(text) /\ text[st.pos] = 34
    THEN ScanStr(text, st, st.pos + 1, <<>>)
    ELSE ParseFail

IsDigit(text, pos) == pos <= Len(text) /\ text[pos] >= 48 /\ text[pos] <= 57

RECURSIVE ScanU8(_, _, _, _)
ScanU8(text, st, pos, acc) ==
    IF IsDigit(text, pos)
    THEN IF acc * 10 + (text[pos] - 48) > 255 THEN ParseFail
         ELSE ScanU8(text, st, pos + 1, acc * 10 + (text[pos] - 48))
    ELSE Parsed(st, acc, pos)

\* A u8: decimal digits, no leading zero, at most 255.
ParseU8(text, st) ==
    IF ~st.ok \/ ~IsDigit(text, st.pos) THEN ParseFail
    ELSE IF text[st.pos] = 48
         THEN IF IsDigit(text, st.pos + 1) THEN ParseFail
              ELSE Parsed(st, 0, st.pos + 1)
    ELSE ScanU8(text, st, st.pos, 0)

RECURSIVE ScanArray(_, _, _, _)
\* The elements of an array from position pos on, acc those read so far.
ScanArray(text, st, pos, acc) ==
    LET elem == ParseU8(text, [ok |-> TRUE, pos |-> pos, vals |-> <<>>]) IN
    IF ~elem.ok \/ elem.pos > Len(text) THEN ParseFail
    ELSE IF text[elem.pos] = 93
         THEN Parsed(st, Append(acc, elem.vals[1]), elem.pos + 1)
    ELSE IF text[elem.pos] = 44
         THEN ScanArray(text, st, elem.pos + 1, Append(acc, elem.vals[1]))
    ELSE ParseFail

\* A Vec<u8>.
ParseBytes(text, st) ==
    IF ~st.ok \/ st.pos + 1 > Len(text) \/ text[st.pos] # 91 THEN ParseFail
    ELSE IF text[st.pos + 1] = 93 THEN Parsed(st, <<>>, st.pos + 2)
    ELSE ScanArray(text, st, st.pos + 1, <<>>)

\* The state st, its last four values (name, secret, username,
\* secret_bytes) made one TOTP.
FoldTOTP(st) ==
    LET n == Len(st.vals) IN
    IF ~st.ok THEN ParseFail
    ELSE [st EXCEPT !.vals =
            Append(SubSeq(st.vals, 1, n - 4),
                   TOTP_new(st.vals[n - 3], st.vals[n - 1], st.vals[n - 2],
                            st.vals[n]))]

\* A TOTP.
ParseTOTP(text, st) ==
    FoldTOTP(
      ParseLit(text,
        ParseBytes(text,
          ParseLit(text,
            ParseStr(text,
              ParseLit(text,
                ParseStr(text,
                  ParseLit(text,
                    ParseStr(text,
                      ParseLit(text, st, LitName)),
                    LitSecret)),
                LitUsername)),
            LitSecretBytes)),
        <<125>>))

\* The map m with key k set to v (HashMap::insert: a later entry of the same
\* key replaces the earlier one).
MapInsert(m, k, v) ==
    [x \in DOMAIN m \cup {k} |-> IF x = k THEN v ELSE m[x]]

EmptyMap == [x \in {} |-> <<>>]

\* One entry: "key":totp
ParseEntry(text, st) == ParseTOTP(text, ParseLit(text, ParseStr(text, st), <<58>>))

RECURSIVE ScanEntries(_, _, _, _)
\* The entries of an object: "key":totp (',' "key":totp)* '}', entry the
\* state after the next one, acc the map of those before it.
ScanEntries(text, st, entry, acc) ==
    IF ~entry.ok \/ entry.pos > Len(text) THEN ParseFail
    ELSE IF text[entry.pos] = 125
         THEN Parsed(st, MapInsert(acc, entry.vals[1], entry.vals[2]),
                     entry.pos + 1)
    ELSE IF text[entry.pos] = 44
         THEN ScanEntries(text, st,
                          ParseEntry(text, [ok |-> TRUE, pos |-> entry.pos + 1,
                                            vals |-> <<>>]),
                          MapInsert(acc, entry.vals[1], entry.vals[2]))
    ELSE ParseFail

\* A HashMap<String, TOTP>.
ParseMap(text, st) ==
    IF ~st.ok \/ st.pos + 1 > Len(text) \/ text[st.pos] # 123 THEN ParseFail
    ELSE IF text[st.pos + 1] = 125 THEN Parsed(st, EmptyMap, st.pos + 2)
    ELSE ScanEntries(text, st,
                     ParseEntry(text, [ok |-> TRUE, pos |-> st.pos + 1,
                                       vals |-> <<>>]),
                     EmptyMap)

\* JsonDatabaseSchema { version, content: DatabaseContentSchema { applications } }
Schema(version, applications) ==
    [version |-> version, content |-> [applications |-> applications]]

\* The result of a parse that read a version and a map and must have
\* reached the end of the text.
FoldSchema(text, st) ==
    IF st.ok /\ st.pos = Len(text) + 1
    THEN Ok(Schema(st.vals[1], st.vals[2]))
    ELSE Err("Couldn't parse JSON from database file")

\* serde_json::from_str(text): Ok(schema), or Err on text that is not one
\* whole document.
from_str(text) ==
    FoldSchema(text,
      ParseLit(text,
        ParseMap(text,
          ParseLit(text,
            ParseU8(text,
              ParseLit(text, ParseStart, LitVersion)),
            LitContent)),
        LitEnd))

(***************************************************************************)
(* databases/json.rs: the cipher.                                          *)
(*                                                                         *)
(* SHA-256 and AES-256-CBC are modelled symbolically.  A key is the digest *)
(* of its passphrase, so two keys are equal exactly when the passphrases   *)
(* are.  A ciphertext records the key and IV it was made under and the     *)
(* padded plaintext; len is the number of its bytes that are present (a    *)
(* ciphertext cut short by a failed write keeps a prefix), and padded      *)
(* holds the plaintext blocks those bytes cover.                           *)
(***************************************************************************)
\* JsonDatabase::form_secret_key: the SHA-256 digest of the passphrase.
form_secret_key(input) == [sha256 |-> input]

\* The IVs OsRng::fill_bytes may produce (a bounded part of the 2^128).
IvOf(seed) == [i \in 1..IV_SIZE |-> seed]

\* JsonDatabase::create_iv: the values the call may return.
create_iv == {IvOf(seed) : seed \in 0..MaxIvSeed}

\* blockmodes::PkcsPadding on encryption: n bytes of value n, 1 <= n <= 16.
PkcsPad(data) ==
    LET n == BLOCK_SIZE - (Len(data) % BLOCK_SIZE) IN
    data \o [i \in 1..n |-> n]

\* blockmodes::PkcsPadding on decryption: the last byte n says how many
\* bytes of value n end the data; anything else is an error.
PkcsUnpad(bytes) ==
    LET n == bytes[Len(bytes)] IN
    IF Len(bytes) = 0 THEN Err("InvalidPadding")
    ELSE IF n < 1 \/ n > BLOCK_SIZE \/ n > Len(bytes) THEN Err("InvalidPadding")
    ELSE IF \E i \in (Len(bytes) - n + 1)..Len(bytes) : bytes[i] # n
         THEN Err("InvalidPadding")
    ELSE Ok(SubSeq(bytes, 1, Len(bytes) - n))

\* The empty byte string, as a ciphertext.
NoBytes == [key |-> form_secret_key(""), iv |-> <<>>, padded |-> <<>>, len |-> 0]

\* The first n bytes of the ciphertext ct.
CipherPrefix(ct, n) ==
    IF n <= 0 THEN NoBytes
    ELSE IF n >= ct.len THEN ct
    ELSE [ct EXCEPT
            !.len = n,
            !.padded = SubSeq(ct.padded, 1,
                              ((n + BLOCK_SIZE - 1) \div BLOCK_SIZE) * BLOCK_SIZE)]

\* JsonDatabase::encrypt: AES-256/CBC/Pkcs of data under key and iv.  The
\* loop over the 4096-byte write buffer collects the whole ciphertext.
encrypt(data, key, iv) ==
    Ok([key |-> key, iv |-> iv, padded |-> PkcsPad(data),
        len |-> Len(PkcsPad(data))])

\* JsonDatabase::decrypt.  A length that is no multiple of the block size is
\* an error.  Under another key or IV the cipher yields pseudo-random
\* blocks: padding validation rejects them, or they pass on as bytes that
\* are no UTF-8 JSON document; either way the caller panics, and the model
\* folds both in one error.
\* Fault: the key and IV given are not used.
decrypt_any_key(encrypted_data, key, iv) ==
    IF encrypted_data.len % BLOCK_SIZE # 0 THEN Err("InvalidLength")
    ELSE IF encrypted_data.len = 0 THEN Err("InvalidPadding")
    ELSE PkcsUnpad(encrypted_data.padded)

decrypt(encrypted_data, key, iv) ==
    IF encrypted_data.len % BLOCK_SIZE # 0 THEN Err("InvalidLength")
    ELSE IF encrypted_data.len = 0 THEN Err("InvalidPadding")
    ELSE IF encrypted_data.key # key \/ encrypted_data.iv # iv THEN Err("Garbled")
    ELSE PkcsUnpad(encrypted_data.padded)

(***************************************************************************)
(* The bytes of a file: head is its first IV_SIZE bytes (fewer when the    *)
(* file is shorter), body the bytes after them.                            *)
(***************************************************************************)
Data(head, body) == [head |-> head, body |-> body]
EmptyData == Data(<<>>, NoBytes)
DataLen(data) == Len(data.head) + data.body.len

\* The first n bytes of data.
DataPrefix(data, n) ==
    IF n <= IV_SIZE
    THEN Data(SubSeq(data.head, 1, IF n < Len(data.head) THEN n ELSE Len(data.head)),
              NoBytes)
    ELSE Data(data.head, CipherPrefix(data.body, n - IV_SIZE))

\* String::from_utf8: the model's text is ASCII.
from_utf8(bytes) ==
    IF \A i \in 1..Len(bytes) : bytes[i] < 128 THEN Ok(bytes) ELSE Err("Utf8Error")

\* JsonDatabase::decrypt_data: Err is a panic (the slice out of range, the
\* expect on decrypt, the unwrap on from_utf8).
decrypt_data(data, key) ==
    IF DataLen(data) < IV_SIZE THEN Err("slice index out of range")
    ELSE LET plain == decrypt(data.body, key, data.head) IN
         IF ~plain.ok THEN Err("Couldn't decrypt data")
         ELSE from_utf8(plain.v)

\* JsonDatabase::encrypt_data; iv is what create_iv returned.
\* Faults: the IV is a constant; the IV is not put before the ciphertext.
encrypt_data_zero_iv(data, key, iv) ==
    Data(IvOf(0), encrypt(data, key, IvOf(0)).v)

encrypt_data_no_iv(data, key, iv) == Data(<<>>, encrypt(data, key, iv).v)

encrypt_data(data, key, iv) == Data(iv, encrypt(data, key, iv).v)

\* JsonDatabase::get_empty_schema
\* Fault: the version is not DATABASE_VERSION.
get_empty_schema_v0 == Schema(DATABASE_VERSION - 1, EmptyMap)

get_empty_schema == Schema(DATABASE_VERSION, EmptyMap)

(***************************************************************************)
(* The file system: the database file is absent, or holds data.            *)
(***************************************************************************)
NoFile == [exists |-> FALSE, data |-> EmptyData]
FileOf(data) == [exists |-> TRUE, data |-> data]

\* JsonDatabase::read_database_file: Ok(schema), or Err for a panic.  The
\* passphrase is what secret_fn returns; it is called only when the file
\* was read.
\* Faults: a file that does not decrypt or parse reads as the empty
\* document; a missing file is an error like any other.
read_database_file_degraded(f, secret) ==
    IF ~f.exists THEN Ok(get_empty_schema)
    ELSE LET decrypted_data == decrypt_data(f.data, form_secret_key(secret)) IN
         IF ~decrypted_data.ok THEN Ok(get_empty_schema)
         ELSE IF ~from_str(decrypted_data.v).ok THEN Ok(get_empty_schema)
         ELSE from_str(decrypted_data.v)

read_database_file_no_default(f, secret) ==
    IF ~f.exists THEN Err("There was a problem opening file")
    ELSE LET decrypted_data == decrypt_data(f.data, form_secret_key(secret)) IN
         IF ~decrypted_data.ok THEN decrypted_data
         ELSE from_str(decrypted_data.v)

read_database_file(f, secret) ==
    IF ~f.exists THEN Ok(get_empty_schema)
    ELSE LET decrypted_data == decrypt_data(f.data, form_secret_key(secret)) IN
         IF ~decrypted_data.ok THEN decrypted_data
         ELSE from_str(decrypted_data.v)

\* The strings secret_fn hands to one read_database_file call, in order: it
\* is called after the file was read, and not at all when the file is
\* missing.
\* Fault: secret_fn is called before the file is looked at.
read_secret_calls_eager(f, secret) == <<secret>>

read_secret_calls(f, secret) == IF ~f.exists THEN <<>> ELSE <<secret>>

\* Database::get_applications
db_get_applications(f, secret) ==
    LET db_content == read_database_file(f, secret) IN
    IF db_content.ok THEN Ok(db_content.v.content.applications) ELSE db_content

\* JsonDatabase::open_database_file_for_write: write, truncate, create.
open_database_file_for_write(f) == FileOf(EmptyData)

\* How far a save gets.  "open": opening the file fails (not with NotFound);
\* "secret": the call stops between opening the file and writing, as when
\* secret_fn panics; "write": write_all fails after part of the bytes;
\* "done": the save returns.
SaveOutcomes == {"open", "secret", "write", "done"}

\* The numbers of bytes a failed write_all may leave behind (a bounded part
\* of 0 .. length - 1): inside the IV, and one block of ciphertext.
WriteCuts == {IV_SIZE \div 2, IV_SIZE + BLOCK_SIZE}

\* The cuts an outcome goes with: those of a failed write, else none (0).
CutsOf(outcome) == IF outcome = "write" THEN WriteCuts ELSE {0}

\* JsonDatabase::save_database_file: the file after the call.  The parent
\* directory of the file exists, so the open does not fail with NotFound.
save_database_file(f, content, secret, iv, order, outcome, cut) ==
    LET file == open_database_file_for_write(f)
        data == to_string(content, order)
        encrypted_data == encrypt_data(data, form_secret_key(secret), iv)
    IN  IF outcome = "open" THEN f
        ELSE IF outcome = "secret" THEN file
        ELSE IF outcome = "write" THEN FileOf(DataPrefix(encrypted_data, cut))
        ELSE FileOf(encrypted_data)

\* The calls of secret_fn in one save_database_file call, each with the
\* string it is asked for: one, made after the file was opened, and none
\* when the open failed.
save_secret_calls(outcome, secret) == IF outcome = "open" THEN <<>> ELSE <<secret>>

\* Database::save_applications
\* Fault: the entries the file holds are kept beside the given ones.
db_save_applications_merge(f, applications, secret, iv, order, outcome, cut) ==
    LET old == db_get_applications(f, secret)
        merged == [k \in DOMAIN applications \cup (IF old.ok THEN DOMAIN old.v ELSE {})
                     |-> IF k \in DOMAIN applications THEN applications[k] ELSE old.v[k]]
        rest == IF old.ok THEN DOMAIN old.v \ DOMAIN applications ELSE {}
        tail == CHOOSE o \in [1..Cardinality(rest) -> rest] :
                    \A i, j \in 1..Cardinality(rest) : i # j => o[i] # o[j]
    IN  save_database_file(f, Schema(DATABASE_VERSION, merged), secret, iv,
                           order \o tail, outcome, cut)

db_save_applications(f, applications, secret, iv, order, outcome, cut) ==
    LET db_content == [get_empty_schema EXCEPT !.content.applications = applications]
    IN  save_database_file(f, db_content, secret, iv, order, outcome, cut)

(***************************************************************************)
(* lib.rs: the operations of RusTOTPony on its applications map.  Each     *)
(* yields the map after the call and the call's result.                    *)
(***************************************************************************)
Outcome(apps, res) == [apps |-> apps, res |-> res]

\* The map m without key k (HashMap::remove).
MapRemove(m, k) == [x \in DOMAIN m \ {k} |-> m[x]]

\* RusTOTPony::create_application
\* Faults: the name is looked up before the secret is decoded; the entry is
\* inserted whether or not the name is taken.
create_application_name_first(apps, name, username, secret) ==
    LET new_app == new_base32(name, username, secret) IN
    IF name \in DOMAIN apps THEN Outcome(apps, Err("already exists"))
    ELSE IF ~new_app.ok THEN Outcome(apps, new_app)
    ELSE Outcome(MapInsert(apps, name, new_app.v), Ok(<<>>))

create_application_overwrite(apps, name, username, secret) ==
    LET new_app == new_base32(name, username, secret) IN
    IF ~new_app.ok THEN Outcome(apps, new_app)
    ELSE Outcome(MapInsert(apps, name, new_app.v),
                 IF name \in DOMAIN apps THEN Err("already exists") ELSE Ok(<<>>))

create_application(apps, name, username, secret) ==
    LET new_app == new_base32(name, username, secret) IN
    IF ~new_app.ok THEN Outcome(apps, new_app)
    ELSE IF name \in DOMAIN apps THEN Outcome(apps, Err("already exists"))
    ELSE Outcome(MapInsert(apps, name, new_app.v), Ok(<<>>))

\* RusTOTPony::delete_application
\* Fault: the entry is looked up, not removed.
delete_application_keep(apps, name) ==
    IF name \in DOMAIN apps THEN Outcome(apps, Ok(<<>>))
    ELSE Outcome(apps, Err("doesn't exist"))

delete_application(apps, name) ==
    IF name \in DOMAIN apps THEN Outcome(MapRemove(apps, name), Ok(<<>>))
    ELSE Outcome(apps, Err("doesn't exist"))

\* RusTOTPony::rename_application
\* Fault: the entry is moved to the key newname.
rename_application_rekey(apps, name, newname) ==
    IF name \in DOMAIN apps
    THEN Outcome(MapInsert(MapRemove(apps, name), newname,
                           set_name(apps[name], newname)), Ok(<<>>))
    ELSE Outcome(apps, Err("wasn't found"))

rename_application(apps, name, newname) ==
    IF name \in DOMAIN apps
    THEN Outcome([apps EXCEPT ![name] = set_name(@, newname)], Ok(<<>>))
    ELSE Outcome(apps, Err("wasn't found"))

\* RusTOTPony::get_applications
\* Fault: the map is returned whatever its size.
get_applications_any(apps) == Ok(apps)

get_applications(apps) ==
    IF Cardinality(DOMAIN apps) = 0 THEN Err("There are no applications")
    ELSE Ok(apps)

\* RusTOTPony::get_application
get_application(apps, name) ==
    IF name \in DOMAIN apps THEN Ok(apps[name]) ELSE Err("wasn't found")

\* RusTOTPony::delete_all_applications
delete_all_applications(apps) == EmptyMap

(***************************************************************************)
(* The inputs of the model.                                                *)
(***************************************************************************)
\* "a", "b"
Names == {<<97>>, <<98>>}
\* "u"
Usernames == {<<117>>}
\* "MY" (decodes to one byte), "" (decodes to no byte), "1" (not base32)
Secrets == {<<77, 89>>, <<>>, <<49>>}
\* The new names of rename_application: "b"
NewNames == {<<98>>}
\* What secret_fn may return.
Passphrases == {"", "pw"}

\* The orders in which a HashMap with key set S may be iterated.
Orders(S) ==
    {o \in [1..Cardinality(S) -> S] :
        \A i, j \in 1..Cardinality(S) : i # j => o[i] # o[j]}

(***************************************************************************)
(* The state.                                                              *)
(***************************************************************************)
VARIABLES
    file,           \* the database file: NoFile or FileOf(data)
    applications,   \* RusTOTPony.applications
    pc,             \* "off": no registry; "ready": constructed; "panicked"
    passphrase,     \* what secret_fn returns when called
    persisted,      \* the last save that returned, while the file is as it left
                    \* it: its passphrase and map, and the keys it dropped from
                    \* the save before it
    last,           \* the last call: its name, arguments and result
    rt              \* the envelope applied to one map, stage by stage (SpecEnvelope)

vars == <<file, applications, pc, passphrase, persisted, last, rt>>

Call(op, name, arg, res) == [op |-> op, name |-> name, arg |-> arg, res |-> res]

\* The envelope at rest.
RtIdle == [stage |-> "idle"]

Init ==
    /\ rt = RtIdle
    /\ file = NoFile
    /\ applications = EmptyMap
    /\ pc = "off"
    /\ passphrase \in Passphrases
    /\ persisted = None
    /\ last = Call("init", <<>>, <<>>, Ok(<<>>))

\* RusTOTPony::new(db): a process starts and loads the applications.  A
\* panic ends the process.
New ==
    /\ pc \in {"off", "panicked"}
    /\ LET loaded == db_get_applications(file, passphrase) IN
       /\ pc' = IF loaded.ok THEN "ready" ELSE "panicked"
       /\ applications' = IF loaded.ok THEN loaded.v ELSE EmptyMap
       /\ last' = Call("new", <<>>, read_secret_calls(file, passphrase), loaded)
    /\ UNCHANGED <<file, passphrase, persisted, rt>>

CreateApplication(name, username, secret) ==
    /\ pc = "ready"
    /\ LET out == create_application(applications, name, username, secret) IN
       /\ applications' = out.apps
       /\ last' = Call("create", name, <<username, secret>>, out.res)
    /\ UNCHANGED <<file, pc, passphrase, persisted, rt>>

DeleteApplication(name) ==
    /\ pc = "ready"
    /\ LET out == delete_application(applications, name) IN
       /\ applications' = out.apps
       /\ last' = Call("delete", name, <<>>, out.res)
    /\ UNCHANGED <<file, pc, passphrase, persisted, rt>>

RenameApplication(name, newname) ==
    /\ pc = "ready"
    /\ LET out == rename_application(applications, name, newname) IN
       /\ applications' = out.apps
       /\ last' = Call("rename", name, newname, out.res)
    /\ UNCHANGED <<file, pc, passphrase, persisted, rt>>

GetApplications ==
    /\ pc = "ready"
    /\ last' = Call("list", <<>>, <<>>, get_applications(applications))
    /\ UNCHANGED <<file, applications, pc, passphrase, persisted, rt>>

GetApplication(name) ==
    /\ pc = "ready"
    /\ last' = Call("get", name, <<>>, get_application(applications, name))
    /\ UNCHANGED <<file, applications, pc, passphrase, persisted, rt>>

\* Fault: the emptied map is saved at once.
DeleteAllApplicationsSaved ==
    /\ pc = "ready"
    /\ applications' = delete_all_applications(applications)
    /\ file' = db_save_applications(file, applications', passphrase, IvOf(0), <<>>,
                                    "done", 0)
    /\ persisted' = None
    /\ last' = Call("clear", <<>>, <<>>, Ok(<<>>))
    /\ UNCHANGED <<pc, passphrase, rt>>

DeleteAllApplications ==
    /\ pc = "ready"
    /\ applications' = delete_all_applications(applications)
    /\ last' = Call("clear", <<>>, <<>>, Ok(<<>>))
    /\ UNCHANGED <<file, pc, passphrase, persisted, rt>>

\* RusTOTPony::flush: the save draws iv from create_iv, iterates the map in
\* some order and gets as far as outcome says.  A save that does not return
\* is a panic, which ends the process.
Flush(iv, order, outcome, cut) ==
    /\ pc = "ready"
    /\ file' = db_save_applications(file, applications, passphrase, iv, order,
                                    outcome, cut)
    /\ pc' = IF outcome = "done" THEN "ready" ELSE "panicked"
    /\ applications' = IF outcome = "done" THEN applications ELSE EmptyMap
    /\ persisted' = IF outcome = "done"
                    THEN Some([pass |-> passphrase, apps |-> applications,
                               dropped |-> IF persisted.some
                                           THEN DOMAIN persisted.v.apps
                                                \ DOMAIN applications
                                           ELSE {}])
                    ELSE IF file' = file THEN persisted ELSE None
    /\ last' = Call("flush", <<>>,
                    [iv |-> IF outcome = "done" THEN iv ELSE <<>>,
                     asked |-> save_secret_calls(outcome, passphrase)],
                    IF outcome = "done" THEN Ok(<<>>) ELSE Err(outcome))
    /\ UNCHANGED <<passphrase, rt>>

\* The process ends; the registry is dropped.
Exit ==
    /\ pc = "ready"
    /\ pc' = "off"
    /\ applications' = EmptyMap
    /\ last' = Call("exit", <<>>, <<>>, Ok(<<>>))
    /\ UNCHANGED <<file, passphrase, persisted, rt>>

\* The user's answer to the passphrase prompt changes.
SetPassphrase(p) ==
    /\ p # passphrase
    /\ passphrase' = p
    /\ last' = Call("passphrase", <<>>, p, Ok(<<>>))
    /\ UNCHANGED <<file, applications, pc, persisted, rt>>

Next ==
    \/ New
    \/ \E name \in Names, username \in Usernames, secret \in Secrets :
          CreateApplication(name, username, secret)
    \/ \E name \in Names : DeleteApplication(name)
    \/ \E name \in Names, newname \in NewNames : RenameApplication(name, newname)
    \/ GetApplications
    \/ \E name \in Names : GetApplication(name)
    \/ DeleteAllApplications
    \/ \E iv \in create_iv, order \in Orders(DOMAIN applications),
          outcome \in SaveOutcomes :
          \E cut \in CutsOf(outcome) : Flush(iv, order, outcome, cut)
    \/ Exit
    \/ \E p \in Passphrases : SetPassphrase(p)

Spec == Init /\ [][Next]_vars

(***************************************************************************)
(* The envelope as a pure pipeline: one entry map and one passphrase are   *)
(* serialized, encrypted, decrypted and deserialized with the functions    *)
(* save_database_file and read_database_file compose.  The maps are any    *)
(* maps of entries, not only those the registry builds: names with '"'     *)
(* and '\', a name other than the key, secret_bytes that are not the       *)
(* decoding of secret.                                                     *)
(***************************************************************************)
\* Keys: q" and b
RtNames == {<<113, 34>>, <<98>>}

RtEntries ==
    { TOTP_new(<<120, 92>>, <<>>, <<77, 89>>, <<102>>),
      TOTP_new(<<98>>, <<117>>, <<>>, <<>>),
      TOTP_new(<<98>>, <<117>>, <<49>>, <<0, 255, 16>>) }

RtMaps == UNION {[keys -> RtEntries] : keys \in SUBSET RtNames}

InitEnvelope ==
    /\ file = NoFile
    /\ applications = EmptyMap
    /\ pc = "off"
    /\ passphrase \in Passphrases
    /\ persisted = None
    /\ last = Call("init", <<>>, <<>>, Ok(<<>>))
    /\ \E m \in RtMaps :
          rt = [stage |-> "input", map |-> m, pass |-> passphrase]

main == <<file, applications, pc, passphrase, persisted, last>>

\* serialize(M)
RtSerialize(order) ==
    /\ rt.stage = "input"
    /\ rt' = [stage |-> "serialized", map |-> rt.map, pass |-> rt.pass,
              text |-> to_string([get_empty_schema EXCEPT
                                    !.content.applications = rt.map], order)]
    /\ UNCHANGED main

\* encrypt(text, deriveKey(P)), twice: each call draws its IV.
RtEncrypt(iv, iv2) ==
    /\ rt.stage = "serialized"
    /\ rt' = [stage |-> "encrypted", map |-> rt.map, pass |-> rt.pass,
              text |-> rt.text, iv |-> iv, iv2 |-> iv2,
              blob |-> encrypt_data(rt.text, form_secret_key(rt.pass), iv),
              blob2 |-> encrypt_data(rt.text, form_secret_key(rt.pass), iv2)]
    /\ UNCHANGED main

\* decrypt(blob, deriveKey(P)), of both blobs
RtDecrypt ==
    /\ rt.stage = "encrypted"
    /\ rt' = [stage |-> "decrypted", map |-> rt.map, pass |-> rt.pass,
              text |-> rt.text, iv |-> rt.iv, iv2 |-> rt.iv2,
              blob |-> rt.blob, blob2 |-> rt.blob2,
              plain |-> decrypt_data(rt.blob, form_secret_key(rt.pass)),
              plain2 |-> decrypt_data(rt.blob2, form_secret_key(rt.pass))]
    /\ UNCHANGED main

\* deserialize(plain)
RtDeserialize ==
    /\ rt.stage = "decrypted"
    /\ rt' = [stage |-> "deserialized", map |-> rt.map, pass |-> rt.pass,
              text |-> rt.text, blob |-> rt.blob,
              out |-> IF rt.plain.ok THEN from_str(rt.plain.v) ELSE rt.plain]
    /\ UNCHANGED main

NextEnvelope ==
    \/ \E order \in Orders(DOMAIN rt.map) : RtSerialize(order)
    \/ \E iv \in create_iv, iv2 \in create_iv : RtEncrypt(iv, iv2)
    \/ RtDecrypt
    \/ RtDeserialize

SpecEnvelope == InitEnvelope /\ [][NextEnvelope]_vars

(***************************************************************************)
(* The directories of the file.  A path is absolute or relative and names  *)
(* directories from the root or from where it is resolved; the file name   *)
(* itself is left out.  A relative path is resolved by the operating       *)
(* system against the working directory of the process.                    *)
(***************************************************************************)
Path(abs, parts) == [abs |-> abs, parts |-> parts]

\* PathBuf::from(".")
Dot == Path(FALSE, <<>>)

\* PathBuf::join: an absolute path replaces the base.
join(dir, path) ==
    IF path.abs THEN path ELSE Path(dir.abs, dir.parts \o path.parts)

\* The directory a path names for a process with working directory cwd.
Resolve(cwd, path) == IF path.abs THEN path.parts ELSE cwd \o path.parts

\* A directory and all its ancestors.
Ancestors(d) == {SubSeq(d, 1, n) : n \in 0..Len(d)}

\* The parents of the configured file paths: d/<file> and /data/d/<file>
Parents == {Path(FALSE, <<"d">>), Path(TRUE, <<"data", "d">>)}
\* The working directories, and what std::env::home_dir() returns.
Cwds == {<<"home">>, <<"work">>}
HomeDirs == {Some(Path(TRUE, <<"home">>)), None}
\* The directories that exist whatever the path.
BaseDirs == {<<>>, <<"home">>, <<"work">>}

Fs(parent, cwd, home_dir, dirs) ==
    [stage |-> "fs", parent |-> parent, cwd |-> cwd, home_dir |-> home_dir,
     dirs |-> dirs]

\* OpenOptions::open(&self.file_path) with create(true) finds the directory
\* of the file; else it fails with NotFound.
ParentExists(fs) == Resolve(fs.cwd, fs.parent) \in fs.dirs

\* std::fs::create_dir_all
create_dir_all(fs, dir) ==
    [fs EXCEPT !.dirs = @ \cup Ancestors(Resolve(fs.cwd, dir))]

\* JsonDatabase::create_database_file: the directories after the call, and
\* whether the open that ends it succeeds.
create_database_file(fs) ==
    LET dir == IF fs.home_dir.some THEN fs.home_dir.v ELSE Dot
        made == create_dir_all(fs, join(dir, fs.parent))
    IN  [fs |-> made,
         res |-> IF ParentExists(made) THEN Ok(<<>>) ELSE Err("NotFound")]

InitDirs ==
    /\ file = NoFile
    /\ applications = EmptyMap
    /\ pc = "off"
    /\ passphrase \in Passphrases
    /\ persisted = None
    /\ last = Call("init", <<>>, <<>>, Ok(<<>>))
    /\ \E parent \in Parents, cwd \in Cwds, home_dir \in HomeDirs,
          there \in BOOLEAN :
          rt = Fs(parent, cwd, home_dir,
                  BaseDirs \cup (IF there THEN Ancestors(Resolve(cwd, parent))
                                 ELSE {}))

\* RusTOTPony::flush on a file whose directory may be missing: the save
\* opens the file, on NotFound creates directories and opens again, and
\* then goes on as in Flush.  An open that fails otherwise ("open") is one
\* in an existing directory.
FlushAt(iv, order, outcome, cut) ==
    /\ pc = "ready"
    /\ rt.stage = "fs"
    /\ outcome = "open" => ParentExists(rt)
    /\ LET created == IF ParentExists(rt) THEN [fs |-> rt, res |-> Ok(<<>>)]
                      ELSE create_database_file(rt)
           opened == created.res.ok
           done == opened /\ outcome = "done"
       IN  /\ rt' = created.fs
           /\ file' = IF opened
                      THEN db_save_applications(file, applications, passphrase,
                                                iv, order, outcome, cut)
                      ELSE file
           /\ pc' = IF done THEN "ready" ELSE "panicked"
           /\ applications' = IF done THEN applications ELSE EmptyMap
           /\ persisted' = IF done
                           THEN Some([pass |-> passphrase, apps |-> applications,
                                      dropped |-> IF persisted.some
                                                  THEN DOMAIN persisted.v.apps
                                                       \ DOMAIN applications
                                                  ELSE {}])
                           ELSE IF file' = file THEN persisted ELSE None
           /\ last' = Call("flush", <<>>,
                           [iv |-> IF done THEN iv ELSE <<>>,
                            asked |-> IF opened
                                      THEN save_secret_calls(outcome, passphrase)
                                      ELSE <<>>],
                           IF done THEN Ok(<<>>)
                           ELSE IF opened THEN Err(outcome)
                           ELSE Err("Couldn't create database file"))
    /\ UNCHANGED passphrase

\* "MY"
DirSecret == <<77, 89>>

NextDirs ==
    \/ New
    \/ \E name \in Names, username \in Usernames :
          CreateApplication(name, username, DirSecret)
    \/ \E iv \in create_iv, order \in Orders(DOMAIN applications),
          outcome \in SaveOutcomes :
          \E cut \in CutsOf(outcome) : FlushAt(iv, order, outcome, cut)
    \/ Exit

SpecDirs == InitDirs /\ [][NextDirs]_vars

(***************************************************************************)
(* A file that is there when the first process starts: written by the      *)
(* program or not, whole or cut short.  Its bytes are those of a document  *)
(* of some version, of a text that is no document, or the first bytes of   *)
(* a document's blob.                                                      *)
(***************************************************************************)
\* The version numbers of stored documents.
Versions == 0..MaxVersion

\* "a": name "a", username "u", secret "MY"
StoredEntry == TOTP_new(<<97>>, <<117>>, <<77, 89>>, <<102>>)
StoredMaps == {EmptyMap, MapInsert(EmptyMap, <<97>>, StoredEntry)}

\* {"version":1,"content":{"applications":{}}}
EmptyDoc == to_string(get_empty_schema, <<>>)

\* Texts serde_json::from_str::<JsonDatabaseSchema> rejects: the empty
\* text; a document without its last '}'; one followed by a '}'; one
\* without the version field; one whose version, 256, is no u8; one whose
\* entry has no secret_bytes field.
MalformedDocs ==
    { <<>>,
      SubSeq(EmptyDoc, 1, Len(EmptyDoc) - 1),
      EmptyDoc \o <<125>>,
      <<123>> \o Tail(LitContent) \o <<123, 125>> \o LitEnd,
      LitVersion \o <<50, 53, 54>> \o LitContent \o <<123, 125>> \o LitEnd,
      LitVersion \o SerU8(DATABASE_VERSION) \o LitContent
         \o <<123>> \o SerStr(<<97>>) \o <<58>>
         \o LitName \o SerStr(<<97>>) \o LitSecret \o SerStr(<<77, 89>>)
         \o LitUsername \o SerStr(<<117>>) \o <<125>>
         \o <<125>> \o LitEnd }

\* The lengths a blob is cut to: nothing, less than an IV, the IV alone,
\* and an IV with ciphertext that ends inside a block or at the end of the
\* first block.
StoredCuts ==
    {0, IV_SIZE - 1, IV_SIZE, IV_SIZE + 1, IV_SIZE + BLOCK_SIZE,
     IV_SIZE + BLOCK_SIZE + 1}

\* What is stored: kind "document" with its version and map, kind
\* "malformed", or kind "cut"; file is the file holding it.
Stored(kind, version, map, f) ==
    [stage |-> "stored", kind |-> kind, version |-> version, map |-> map,
     file |-> f]

StoredUnder(secret) ==
    LET key == form_secret_key(secret)
        blob(text) == encrypt_data(text, key, IvOf(0))
    IN  UNION {
          {Stored("document", v, m, FileOf(blob(to_string(Schema(v, m), order)))) :
              v \in Versions, order \in Orders(DOMAIN m)} : m \in StoredMaps}
        \cup {Stored("malformed", 0, EmptyMap, FileOf(blob(text))) :
                text \in MalformedDocs}
        \cup {Stored("cut", 0, EmptyMap, FileOf(DataPrefix(blob(EmptyDoc), n))) :
                n \in StoredCuts}

InitStored ==
    /\ applications = EmptyMap
    /\ pc = "off"
    /\ passphrase \in Passphrases
    /\ persisted = None
    /\ last = Call("init", <<>>, <<>>, Ok(<<>>))
    /\ rt \in StoredUnder(passphrase)
    /\ file = rt.file

NextStored ==
    \/ New
    \/ \E name \in Names, username \in Usernames :
          CreateApplication(name, username, DirSecret)
    \/ DeleteAllApplications
    \/ \E iv \in create_iv, order \in Orders(DOMAIN applications),
          outcome \in SaveOutcomes :
          \E cut \in CutsOf(outcome) : Flush(iv, order, outcome, cut)
    \/ Exit

SpecStored == InitStored /\ [][NextStored]_vars

(***************************************************************************)
(* Properties.                                                             *)
(***************************************************************************)
Decodable(secret) == base32_to_bytes(secret).some

\* C1 (SpecEnvelope): for every entry map M and passphrase P, the empty map
\* and the empty passphrase included, serializing M, encrypting under
\* deriveKey(P), decrypting under deriveKey(P) and deserializing yields a
\* map equal to M: the same keys, and under each key the same name,
\* username, secret and secret_bytes.
RoundTrip ==
    rt.stage = "deserialized" =>
        /\ rt.out.ok
        /\ rt.out.v.content.applications = rt.map
        /\ DOMAIN rt.out.v.content.applications = DOMAIN rt.map
        /\ \A k \in DOMAIN rt.map :
              /\ rt.out.v.content.applications[k].name = rt.map[k].name
              /\ rt.out.v.content.applications[k].username = rt.map[k].username
              /\ rt.out.v.content.applications[k].secret = rt.map[k].secret
              /\ rt.out.v.content.applications[k].secret_bytes
                    = rt.map[k].secret_bytes

\* A map of two entries, one under a key with a '"' and a name with a '\',
\* has gone through the envelope under the empty passphrase.
RoundTripWitness ==
    /\ rt.stage = "deserialized"
    /\ rt.pass = ""
    /\ DOMAIN rt.map = RtNames
    /\ rt.map[<<113, 34>>].name = <<120, 92>>
    /\ rt.out.ok

\* C2: a save is a full overwrite.  After a flush that returned with map M
\* in memory, loading the file under the same passphrase yields exactly M,
\* and a registry then constructed over the file with that passphrase holds
\* exactly M: no entry of an earlier save that M lacks is in it.
SaveOverwrites ==
    /\ (last.op = "flush" /\ last.res.ok) =>
          /\ persisted.some
          /\ persisted.v.pass = passphrase
          /\ persisted.v.apps = applications
          /\ db_get_applications(file, passphrase) = Ok(applications)
    /\ (last.op = "new" /\ persisted.some /\ persisted.v.pass = passphrase) =>
          /\ pc = "ready"
          /\ applications = persisted.v.apps
          /\ persisted.v.dropped \cap DOMAIN applications = {}

\* A registry was constructed over a file whose last save left out an entry
\* the save before it had written.
SaveOverwritesWitness ==
    /\ last.op = "new"
    /\ persisted.some
    /\ persisted.v.pass = passphrase
    /\ persisted.v.dropped # {}
    /\ persisted.v.apps # EmptyMap

\* C3: a save is all or nothing.  Wherever a flush stops, the file holds the
\* complete new blob or what it held before the call; a flush that fails
\* leaves the file, and so the entries persisted before, as they were.
SaveAllOrNothing ==
    [][(last'.op = "flush" /\ ~last'.res.ok) => file' = file]_vars

WrongKeyFails ==
    (/\ last.op = "new"
     /\ persisted.some
     /\ form_secret_key(passphrase) # form_secret_key(persisted.v.pass)) =>
        /\ pc = "panicked"
        /\ ~last.res.ok
        /\ last.res.e \in {"Couldn't decrypt data",
                           "Couldn't parse JSON from database file"}
        /\ applications = EmptyMap

\* A load under another passphrase than the one a non-empty map was saved
\* under has happened.
WrongKeyFailsWitness ==
    /\ last.op = "new"
    /\ persisted.some
    /\ persisted.v.apps # EmptyMap
    /\ form_secret_key(passphrase) # form_secret_key(persisted.v.pass)

\* C6: missing file.  Constructing a registry when no file exists succeeds
\* with zero entries and no error, and the load neither creates nor
\* modifies the file.
MissingFileIsEmpty ==
    [][last'.op = "new" =>
          /\ file' = file
          /\ ~file.exists => (/\ pc' = "ready"
                              /\ last'.res = Ok(EmptyMap)
                              /\ applications' = EmptyMap)]_vars

\* A registry was constructed while no file existed.
MissingFileWitness ==
    last.op = "new" /\ ~file.exists /\ pc = "ready"

\* C7: mutations are memory-only.  Every create, delete, rename and clear,
\* failing or not, and every list and get leaves the file as it is; the
\* file changes only in a flush.
MemoryOnlyUntilFlush ==
    [][/\ last'.op \in {"create", "delete", "rename", "clear", "list", "get"}
          => file' = file
       /\ file' # file => last'.op = "flush"]_vars

\* A create succeeded after a save, and the memory now differs from what
\* the file holds.
MemoryOnlyWitness ==
    /\ last.op \in {"create", "clear"}
    /\ last.res.ok
    /\ persisted.some
    /\ file.exists
    /\ applications # persisted.v.apps

\* C8, as claimed: a create with a name that is a key fails with
\* "already exists" (DuplicateName) and leaves the registry unchanged.
DuplicateCreateFailsDuplicate ==
    [][(last'.op = "create" /\ last'.name \in DOMAIN applications) =>
          /\ last'.res = Err("already exists")
          /\ applications' = applications]_vars

\* C8, amended: a create with a name that is a key fails and leaves the
\* registry unchanged (the entry keeps its fields, the number of entries is
\* the same); the failure is "already exists" when the secret decodes, and
\* "Couldn't decode secret key" when it does not.
DuplicateCreateFails ==
    [][(last'.op = "create" /\ last'.name \in DOMAIN applications) =>
          /\ last'.res = IF Decodable(last'.arg[2])
                         THEN Err("already exists")
                         ELSE Err("Couldn't decode secret key")
          /\ applications' = applications
          /\ applications'[last'.name] = applications[last'.name]
          /\ Cardinality(DOMAIN applications') = Cardinality(DOMAIN applications)
      ]_vars

\* A create was refused because the name exists, with a secret other than
\* the entry's.
DuplicateCreateWitness ==
    /\ last.op = "create"
    /\ last.res = Err("already exists")
    /\ last.name \in DOMAIN applications
    /\ applications[last.name].secret # last.arg[2]

\* C9: delete and get.  A delete of a key removes it and nothing else; a
\* delete of a name that is no key fails with "doesn't exist" and changes
\* nothing; a get succeeds exactly for a key, so after a delete of n it
\* fails with "wasn't found"; and a name that is no key of the registry
\* becomes one only by a create of that name that succeeds.
DeleteGetConsistent ==
    [][/\ (last'.op = "delete" /\ last'.name \in DOMAIN applications) =>
             /\ last'.res.ok
             /\ last'.name \notin DOMAIN applications'
             /\ DOMAIN applications' = DOMAIN applications \ {last'.name}
             /\ \A k \in DOMAIN applications' : applications'[k] = applications[k]
       /\ (last'.op = "delete" /\ last'.name \notin DOMAIN applications) =>
             /\ last'.res = Err("doesn't exist")
             /\ applications' = applications
       /\ last'.op = "get" =>
             /\ applications' = applications
             /\ last'.res = IF last'.name \in DOMAIN applications
                            THEN Ok(applications[last'.name])
                            ELSE Err("wasn't found")
       /\ \A n \in Names :
             (pc = "ready" /\ pc' = "ready"
              /\ n \notin DOMAIN applications /\ n \in DOMAIN applications') =>
                 (last'.op = "create" /\ last'.name = n /\ last'.res.ok)
      ]_vars

\* One of two entries was deleted; the other is still there.
DeleteGetWitness ==
    /\ last.op = "delete"
    /\ last.res.ok
    /\ last.name \notin DOMAIN applications
    /\ Cardinality(DOMAIN applications) = 1

\* C10: empty registry signal.  list() fails with "There are no
\* applications" exactly when the map has no entry, and else returns the
\* whole map.
EmptyRegistrySignal ==
    /\ last.op = "list" =>
          last.res = IF DOMAIN applications = {}
                     THEN Err("There are no applications")
                     ELSE Ok(applications)
    /\ pc = "ready" =>
          (get_applications(applications).ok <=> DOMAIN applications # {})

\* list() was called on an empty registry.
EmptyRegistryWitness ==
    /\ last.op = "list"
    /\ ~last.res.ok
    /\ applications = EmptyMap

ParentDirsCreated ==
    [][(/\ last'.op = "flush"
        /\ rt.stage = "fs"
        /\ ~ParentExists(rt)
        /\ last'.res \notin {Err("secret"), Err("write")}) =>
          /\ last'.res.ok
          /\ ParentExists(rt')
          /\ file'.exists
          /\ db_get_applications(file', passphrase) = Ok(applications)]_vars

\* What the code does with missing directories: the flush returns exactly
\* when the path is absolute, or home_dir() is the working directory or
\* None; else it panics on the second open, with the directories made under
\* the home directory and the file still missing.
ParentDirsUnderHome ==
    [][(/\ last'.op = "flush"
        /\ rt.stage = "fs"
        /\ ~ParentExists(rt)
        /\ last'.res \notin {Err("secret"), Err("write")}) =>
          IF rt.parent.abs \/ ~rt.home_dir.some \/ rt.home_dir.v.parts = rt.cwd
          THEN /\ last'.res.ok
               /\ ParentExists(rt')
               /\ db_get_applications(file', passphrase) = Ok(applications)
          ELSE /\ last'.res = Err("Couldn't create database file")
               /\ ~ParentExists(rt')
               /\ rt.home_dir.v.parts \o rt.parent.parts \in rt'.dirs
               /\ file' = file /\ ~file'.exists
               /\ pc' = "panicked"]_vars

\* C13: name is the unique key.  In every state each entry of the registry
\* is stored under the key that equals its name field, and no two entries
\* have the same name.
NameIsUniqueKey ==
    /\ \A k \in DOMAIN applications : applications[k].name = k
    /\ \A j, k \in DOMAIN applications :
          applications[j].name = applications[k].name => j = k

\* C14: entry validity.  Every entry of the registry, inserted by a create
\* with any secret string or obtained from a load, has secret_bytes that
\* are not empty and are the base32 decoding of its secret.
EntriesValid ==
    \A k \in DOMAIN applications :
        /\ applications[k].secret_bytes # <<>>
        /\ base32_to_bytes(applications[k].secret) = Some(applications[k].secret_bytes)

\* C15: rename without re-key.  A rename(name, newName) of a key name, with
\* newName another name and no key, succeeds and leaves the key set as it
\* is: get(name) returns the entry with name field newName and username,
\* secret and secret_bytes as before, get(newName) fails with "wasn't
\* found", and the other entries are untouched.  A rename of a name that is
\* no key fails with "wasn't found" and changes nothing.  A flush and a
\* reload return the renamed registry as it is.
RenameKeepsKey ==
    /\ [][last'.op = "rename" =>
            IF last'.name \in DOMAIN applications
            THEN (last'.arg # last'.name /\ last'.arg \notin DOMAIN applications) =>
                    /\ last'.res.ok
                    /\ DOMAIN applications' = DOMAIN applications
                    /\ get_application(applications', last'.name)
                          = Ok([name |-> last'.arg,
                                username |-> applications[last'.name].username,
                                secret |-> applications[last'.name].secret,
                                secret_bytes |-> applications[last'.name].secret_bytes])
                    /\ get_application(applications', last'.arg) = Err("wasn't found")
                    /\ \A k \in DOMAIN applications \ {last'.name} :
                          applications'[k] = applications[k]
                    /\ \A iv \in create_iv, order \in Orders(DOMAIN applications') :
                          db_get_applications(
                              db_save_applications(file, applications', passphrase,
                                                   iv, order, "done", 0),
                              passphrase) = Ok(applications')
            ELSE /\ last'.res = Err("wasn't found")
                 /\ applications' = applications]_vars
    /\ [](\A k \in DOMAIN applications :
            (last.op = "get" /\ last.name = k) => last.res = Ok(applications[k]))

\* A registry was loaded from a file saved after a rename: the entry is
\* under its old key "a" with name "b", and "b" is no key.
RenameKeepsKeyWitness ==
    /\ last.op = "new"
    /\ last.res.ok
    /\ persisted.some
    /\ DOMAIN applications = {<<97>>}
    /\ applications[<<97>>].name = <<98>>
    /\ get_application(applications, <<98>>) = Err("wasn't found")

\* C16: create validation order and effect.  A create decodes the secret
\* before it looks at the name: a secret that does not decode fails with
\* "Couldn't decode secret key", also when the name is a key; a secret that
\* decodes fails with "already exists" when the name is a key.  A failing
\* create leaves the registry unchanged; a create that succeeds adds
\* exactly one entry, under the key name, with the name, username and
\* secret given and the decoding of the secret, and leaves the other
\* entries unchanged.
CreateValidatesThenInserts ==
    [][last'.op = "create" =>
          LET name == last'.name
              username == last'.arg[1]
              secret == last'.arg[2]
          IN  IF ~Decodable(secret)
              THEN /\ last'.res = Err("Couldn't decode secret key")
                   /\ applications' = applications
              ELSE IF name \in DOMAIN applications
              THEN /\ last'.res = Err("already exists")
                   /\ applications' = applications
              ELSE /\ last'.res.ok
                   /\ DOMAIN applications' = DOMAIN applications \cup {name}
                   /\ Cardinality(DOMAIN applications')
                         = Cardinality(DOMAIN applications) + 1
                   /\ applications'[name].name = name
                   /\ applications'[name].username = username
                   /\ applications'[name].secret = secret
                   /\ Some(applications'[name].secret_bytes) = base32_to_bytes(secret)
                   /\ \A k \in DOMAIN applications :
                         applications'[k] = applications[k]]_vars

\* A create with a secret that does not decode and a name that is a key
\* has failed on the secret.
CreateValidatesWitness ==
    /\ last.op = "create"
    /\ last.name \in DOMAIN applications
    /\ ~Decodable(last.arg[2])
    /\ last.res = Err("Couldn't decode secret key")
    /\ Cardinality(DOMAIN applications) = 2

\* The document file f holds, read with the key of passphrase secret.
StoredDocument(f, secret) ==
    LET text == decrypt_data(f.data, form_secret_key(secret)) IN
    IF text.ok THEN from_str(text.v) ELSE text

\* C17 (SpecStored): no degraded read.  Constructing a registry over a file
\* that exists but is shorter than IV_SIZE bytes (an empty file too), or
\* whose ciphertext is no multiple of the block size, or that is cut at a
\* block end, or that decrypts to a text that is no well-formed document
\* with all its fields, panics: the load yields no map, empty or partial,
\* and there is no registry.
NoDegradedRead ==
    [][(/\ last'.op = "new"
        /\ file.exists
        /\ \/ DataLen(file.data) < IV_SIZE
           \/ file.data.body.len % BLOCK_SIZE # 0
           \/ (rt.stage = "stored" /\ file = rt.file /\ rt.kind # "document")) =>
          /\ ~last'.res.ok
          /\ last'.res.e \in {"slice index out of range", "Couldn't decrypt data",
                              "Couldn't parse JSON from database file"}
          /\ pc' = "panicked"
          /\ applications' = EmptyMap
          /\ file' = file]_vars

\* A load of a file whose ciphertext ends inside a block has panicked.
NoDegradedReadWitness ==
    /\ last.op = "new"
    /\ pc = "panicked"
    /\ file.exists
    /\ DataLen(file.data) > IV_SIZE
    /\ file.data.body.len % BLOCK_SIZE # 0

\* C18 (SpecStored): version stamping.  The document every flush that
\* returns leaves in the file has version DATABASE_VERSION, whatever the
\* version of the document the registry was loaded from; and a load of a
\* document returns the entries of the document, whatever its version.
VersionStamped ==
    /\ [][(last'.op = "flush" /\ last'.res.ok) =>
             /\ StoredDocument(file', passphrase').ok
             /\ StoredDocument(file', passphrase').v.version = DATABASE_VERSION
             /\ StoredDocument(file', passphrase').v.content.applications = applications]_vars
    /\ [][(/\ last'.op = "new"
           /\ rt.stage = "stored" /\ file = rt.file /\ rt.kind = "document") =>
             /\ StoredDocument(file, passphrase).v.version = rt.version
             /\ last'.res = Ok(rt.map)
             /\ applications' = rt.map]_vars

\* The registry was loaded from a document of a version other than
\* DATABASE_VERSION, and its entry has been saved in a document of version
\* DATABASE_VERSION.
VersionStampedWitness ==
    /\ last.op = "flush"
    /\ last.res.ok
    /\ rt.stage = "stored"
    /\ rt.kind = "document"
    /\ rt.version # DATABASE_VERSION
    /\ rt.map # EmptyMap
    /\ applications = rt.map
    /\ StoredDocument(file, passphrase).v.version = DATABASE_VERSION

=============================================================================
